---- MODULE Spec2Model ----
(***************************************************************************)
(* A model of the source-map store of vscode-sourcemaps-navigator:         *)
(* SourceMapStore (cache, reverseLookupTable, watchers), SourceMapFetcher  *)
(* and the construction of SourceMapItem, with the file watchers and the   *)
(* files of the workspace as the environment (Spec; SpecFail where the     *)
(* creation of a watcher can throw), the fetcher alone on documents of any *)
(* shape (SpecFetch), and the navigate command with the translation of the *)
(* position and the opening of the destination (SpecNav).                  *)
(*                                                                         *)
(* Paths are sequences of segments: <<"dist", "a.js">> is /dist/a.js.      *)
(* An argument of path.resolve is a record [abs, segs]; the empty string   *)
(* (and an undefined field, which the code treats alike) is EmptyStr.      *)
(***************************************************************************)
EXTENDS Naturals, Sequences, FiniteSets, TLC

\* ------------------------------------------------------------------ bounds
\* The number of file watchers that can be undisposed at once.
MaxWatchers == 3
\* The number of navigations that can be suspended in readFile at once.
MaxInflight == 2
\* The number of lines of the longest document handed to the fetcher alone.
MaxLines == 12

\* ------------------------------------------------------------------ paths
Rel(segs) == [abs |-> FALSE, segs |-> segs]
EmptyStr == Rel(<<>>)

RECURSIVE NormSegs(_, _)
NormSegs(acc, segs) ==
    IF segs = <<>> THEN acc
    ELSE LET h == Head(segs) IN
         NormSegs(IF h = ".."
                     THEN (IF acc = <<>> THEN acc ELSE SubSeq(acc, 1, Len(acc) - 1))
                  ELSE IF h \in {".", ""} THEN acc
                  ELSE Append(acc, h),
                  Tail(segs))

\* path.resolve(base, arg) for an absolute base.
PathResolve(base, arg) ==
    IF arg.abs THEN NormSegs(<<>>, arg.segs) ELSE NormSegs(<<>>, base \o arg.segs)

\* path.dirname(p) for an absolute p.
PathDirname(p) == IF p = <<>> THEN p ELSE SubSeq(p, 1, Len(p) - 1)

\* ------------------------------------------------------------ the workspace
GenA  == <<"dist", "a.js">>
GenB  == <<"dist", "b.js">>
MapB  == <<"dist", "b.js.map">>
SrcX  == <<"src", "x.ts">>
SrcY  == <<"src", "y.ts">>
Plain == <<"dist", "plain.js">>

\* What JSON.parse and the constructor cannot make a map of.
\* sourcesContent: the inline text of each source; NoContents stands for an
\* element that is null or missing, and <<>> for a map without the field.
NoContents == ""
BadMap == [ok |-> FALSE, file |-> EmptyStr, sourceRoot |-> EmptyStr, sources |-> <<>>,
           sourcesContent |-> <<>>]
RawMap(file, root, sources) ==
    [ok |-> TRUE, file |-> file, sourceRoot |-> root, sources |-> sources,
     sourcesContent |-> <<>>]
WithContents(m, contents) == [m EXCEPT !.sourcesContent = contents]

\* Inline maps of /dist/a.js.
MA1 == WithContents(RawMap(Rel(<<"a.js">>), Rel(<<"..", "src">>), <<Rel(<<"x.ts">>)>>),
                    <<"text of x.ts">>)
MA2 == WithContents(RawMap(EmptyStr, EmptyStr,
                           <<Rel(<<"..", "src", "x.ts">>), Rel(<<"..", "src", "y.ts">>)>>),
                    <<NoContents, "text of y.ts">>)
\* Contents /dist/b.js.map can have.
MB1 == RawMap(Rel(<<"b.js">>), Rel(<<"..", "src">>), <<Rel(<<"x.ts">>)>>)
MB2 == WithContents(RawMap(Rel(<<"b.js">>), EmptyStr, <<Rel(<<"..", "src", "y.ts">>)>>),
                    <<"text of y.ts">>)
MB3 == RawMap(EmptyStr, Rel(<<"..", "src">>), <<Rel(<<"x.ts">>)>>)

\* A URL: a data: URI carrying a payload, or a path.
NoUrl == [proto |-> "", path |-> EmptyStr, payload |-> BadMap, none |-> TRUE]
DataUrl(m) == [proto |-> "data:", path |-> EmptyStr, payload |-> m, none |-> FALSE]
PathUrl(p) == [proto |-> "", path |-> p, payload |-> BadMap, none |-> FALSE]

\* A line of a document: whether it matches SOURCE_MAPPING_MATCHER, and the
\* URL it then carries.
Code == [m |-> FALSE, url |-> NoUrl]
Directive(u) == [m |-> TRUE, url |-> u]

TenCode == <<Code, Code, Code, Code, Code, Code, Code, Code, Code, Code>>

\* The texts each document can have when a navigation starts.
Texts(doc) ==
    CASE doc = GenA  -> { <<Code, Directive(DataUrl(MA1))>>,
                          <<Code, Directive(DataUrl(MA2))>>,
                          <<Code, Directive(DataUrl(BadMap))>> }
      [] doc = GenB  -> { <<Directive(PathUrl(Rel(<<"old.map">>)))>> \o TenCode
                            \o <<Directive(PathUrl(Rel(<<"b.js.map">>)))>> }
      [] doc = Plain -> { <<Directive(PathUrl(Rel(<<"b.js.map">>)))>> \o TenCode }
      [] OTHER       -> { <<Code, Code, Code>> }

Docs == {GenA, GenB, SrcX, Plain}

\* What readFile can yield for a map file: a content, or a failure (BadMap
\* stands for an unreadable file as well as for an unparsable one: both end
\* in fetch's catch).
FileContents(mapFile) ==
    IF mapFile = MapB THEN {MB1, MB2, MB3, BadMap} ELSE {BadMap}

\* ----------------------------------------------------------- SourceMapItem
NoItem == [generatedFile |-> <<>>, sourceFiles |-> <<>>, sourceMapFile |-> <<>>,
           rawSourceMap |-> BadMap]

\* A constructor that takes the map file for the generated file, whatever
\* the map declares.
NewSourceMapItemIgnoresFile(rawSourceMap, sourceMapFile) ==
    [ sourceFiles   |-> [i \in 1..Len(rawSourceMap.sources) |->
                           PathResolve(PathResolve(PathDirname(sourceMapFile),
                                                   rawSourceMap.sourceRoot),
                                       rawSourceMap.sources[i])],
      generatedFile |-> sourceMapFile,
      sourceMapFile |-> sourceMapFile,
      rawSourceMap  |-> rawSourceMap ]

NewSourceMapItem(rawSourceMap, sourceMapFile) ==
    [ sourceFiles   |-> [i \in 1..Len(rawSourceMap.sources) |->
                           PathResolve(PathResolve(PathDirname(sourceMapFile),
                                                   rawSourceMap.sourceRoot),
                                       rawSourceMap.sources[i])],
      generatedFile |-> IF rawSourceMap.file # EmptyStr
                           THEN PathResolve(PathDirname(sourceMapFile), rawSourceMap.file)
                           ELSE sourceMapFile,
      sourceMapFile |-> sourceMapFile,
      rawSourceMap  |-> rawSourceMap ]

\* isCurrentDocumentGenerated, for the document that is active when it runs.
\* A test that asks whether the document is one of the sources:
IsCurrentDocumentGeneratedNotSource(item, active) ==
    active \notin {item.sourceFiles[i] : i \in 1..Len(item.sourceFiles)}

IsCurrentDocumentGenerated(item, active) == item.generatedFile = active

\* A position in a file, with the inline text of the file when the map
\* carries it. Lines and columns are left out.
NoPosition == [file |-> <<>>, contents |-> NoContents]

\* What SourceMapConsumer.originalPositionFor answers for a position that
\* maps into the d-th declared source: the source name, with the sourceRoot
\* of the map joined in front of it when the map has one.
DecodedSource(rawSourceMap, d) ==
    IF rawSourceMap.sourceRoot = EmptyStr THEN rawSourceMap.sources[d]
    ELSE Rel(rawSourceMap.sourceRoot.segs \o rawSourceMap.sources[d].segs)

\* Array.indexOf, counted from 1; 0 when the element is absent.
IndexOf(seq, x) ==
    IF \E i \in 1..Len(seq) : seq[i] = x
       THEN CHOOSE i \in 1..Len(seq) : seq[i] = x /\ \A j \in 1..(i - 1) : seq[j] # x
       ELSE 0

\* sourcesContent[index]: undefined outside the array.
SourcesContentAt(rawSourceMap, index) ==
    IF index \in 1..Len(rawSourceMap.sourcesContent)
       THEN rawSourceMap.sourcesContent[index] ELSE NoContents

\* originalPositionFor, for a position the decoder maps into the d-th source.
OriginalPositionFor(item, d) ==
    LET smSource       == DecodedSource(item.rawSourceMap, d)
        mapSourceIndex == IndexOf(item.rawSourceMap.sources, smSource)
    IN  [ file     |-> PathResolve(PathDirname(item.sourceMapFile), smSource),
          contents |-> SourcesContentAt(item.rawSourceMap, mapSourceIndex) ]

\* generatedPositionFor, for a position the decoder maps.
GeneratedPositionFor(item) == [file |-> item.generatedFile, contents |-> NoContents]

\* ------------------------------------------------------- SourceMapFetcher
WindowLines == 10

IsDataUri(url) == url.proto = "data:"

TryExtractUrl(line) == IF line.m THEN line.url ELSE NoUrl

\* A fetcher that scans the whole document.
LastTenLinesWholeText(text) == text

\* The lines of Range(lineCount - 10, 0, lineCount + 1, 0), clamped to the
\* document as getText does.
LastTenLines(text) ==
    LET first == IF Len(text) > WindowLines THEN Len(text) - WindowLines + 1 ELSE 1
    IN  SubSeq(text, first, Len(text))

\* A fold from the first line on: the first line from the start that yields
\* a URL.
RECURSIVE ReduceFromStart(_, _)
ReduceFromStart(lines, result) ==
    IF lines = <<>> THEN result
    ELSE ReduceFromStart(Tail(lines),
                         IF ~result.none THEN result ELSE TryExtractUrl(Head(lines)))

\* reduceRight: the first line from the end that yields a URL.
RECURSIVE ReduceRight(_, _)
ReduceRight(lines, result) ==
    IF lines = <<>> THEN result
    ELSE ReduceRight(SubSeq(lines, 1, Len(lines) - 1),
                     IF ~result.none THEN result ELSE TryExtractUrl(lines[Len(lines)]))

FetchedMapUrl(text) == ReduceRight(LastTenLines(text), NoUrl)

\* SourceMapFetcher.fetch, for a document whose window holds a directive.
FetcherFetch(fileName, text) ==
    LET fetched == FetchedMapUrl(text) IN
    [ fileUrl |-> fileName,
      isData  |-> IsDataUri(fetched),
      dataUrl |-> fetched,
      mapUrl  |-> IF IsDataUri(fetched) THEN <<>>
                  ELSE PathResolve(PathDirname(fileName), fetched.path) ]

\* ---------------------------------------------------------- SourceMapStore
VARIABLES
    cache,               \* generated path -> SourceMapItem
    reverseLookupTable,  \* source path -> generated path
    watchers,            \* generated path -> the watcher stored there: "active" or "disposed"
    orphans,             \* path -> the number of watchers created for it that are
                         \* not disposed and that watchers no longer holds
    inflight,            \* the navigations suspended in readFile: [doc, mapUrl] -> how many
    last,                \* the last operation and its outcome
    sinceEvent,          \* documents evicted by a watcher event and not looked up since
    contested,           \* <<key, source>>: the item cached under key lists source, and
                         \* an item of another key that lists it too has been
                         \* registered or removed since
    scan,                \* a document handed to SourceMapFetcher.fetch, and the outcome
    nav                  \* the navigate command that is followed to its end

vars == <<cache, reverseLookupTable, watchers, orphans, inflight, last, sinceEvent,
          contested, scan, nav>>

Put(f, k, v) == [x \in DOMAIN f \cup {k} |-> IF x = k THEN v ELSE f[x]]
Del(f, k) == [x \in DOMAIN f \ {k} |-> f[x]]
Empty == [x \in {} |-> <<>>]

Count(bag, k) == IF k \in DOMAIN bag THEN bag[k] ELSE 0
BagAdd(bag, k) == Put(bag, k, Count(bag, k) + 1)
BagRemove(bag, k) == IF Count(bag, k) > 1 THEN Put(bag, k, bag[k] - 1) ELSE Del(bag, k)

RECURSIVE BagSize(_)
BagSize(bag) ==
    IF DOMAIN bag = {} THEN 0
    ELSE LET k == CHOOSE x \in DOMAIN bag : TRUE IN bag[k] + BagSize(Del(bag, k))

Store == [cache |-> cache, reverseLookupTable |-> reverseLookupTable,
          watchers |-> watchers, orphans |-> orphans]

NoStore == [cache |-> Empty, reverseLookupTable |-> Empty, watchers |-> Empty,
            orphans |-> Empty]

\* The watchers of s that are not disposed, as a bag of their paths.
LiveWatchers(s) ==
    [k \in DOMAIN s.orphans \cup {x \in DOMAIN s.watchers : s.watchers[x] = "active"} |->
        Count(s.orphans, k)
        + (IF k \in DOMAIN s.watchers /\ s.watchers[k] = "active" THEN 1 ELSE 0)]

\* An addItem that enters only the first source file.
PutSourcesFirstOnly(tbl, sourceFiles, generatedFile) ==
    IF sourceFiles = <<>> THEN tbl ELSE Put(tbl, Head(sourceFiles), generatedFile)

\* item.sourceFiles.forEach(sourceFile => reverseLookupTable[sourceFile] = generatedFile)
RECURSIVE PutSources(_, _, _)
PutSources(tbl, sourceFiles, generatedFile) ==
    IF sourceFiles = <<>> THEN tbl
    ELSE PutSources(Put(tbl, Head(sourceFiles), generatedFile), Tail(sourceFiles),
                    generatedFile)

\* sourceFiles.forEach(sourceFile => delete reverseLookupTable[sourceFile])
RECURSIVE DelSources(_, _)
DelSources(tbl, sourceFiles) ==
    IF sourceFiles = <<>> THEN tbl
    ELSE DelSources(Del(tbl, Head(sourceFiles)), Tail(sourceFiles))

\* watchers[generatedFile] = createFileSystemWatcher(...): the watcher that
\* was stored there, if any, is dropped as it is.
StoreWatcher(s, generatedFile) ==
    [s EXCEPT !.orphans = IF generatedFile \in DOMAIN s.watchers
                             /\ s.watchers[generatedFile] = "active"
                             THEN BagAdd(@, generatedFile) ELSE @,
              !.watchers = Put(@, generatedFile, "active")]

\* addItem, when nothing in it throws.
AddItem(s, item) ==
    LET s1 == [s EXCEPT !.cache = Put(@, item.generatedFile, item)]
        s2 == StoreWatcher(s1, item.generatedFile)
    IN  [s2 EXCEPT !.reverseLookupTable =
                       PutSources(@, item.sourceFiles, item.generatedFile)]

\* addItem, when createFileSystemWatcher throws: the item is in cache, and
\* nothing else of addItem has run.
AddItemUntilCreate(s, item) ==
    [s EXCEPT !.cache = Put(@, item.generatedFile, item)]

\* addItem under @safeMethod: an exception thrown inside is caught and does
\* not reach the caller, who goes on with the store as the throw left it.
SafeAddItem(s, item, createThrows) ==
    IF createThrows THEN AddItemUntilCreate(s, item) ELSE AddItem(s, item)

\* watchers[generatedPath].dispose(); delete watchers[generatedPath]
DropWatcher(s, generatedPath) ==
    LET s1 == [s EXCEPT !.watchers[generatedPath] = "disposed"]
    IN  [s1 EXCEPT !.watchers = Del(@, generatedPath)]

\* A removeItem that leaves the item in cache.
DropCachedKeepsItem(s, generatedPath) ==
    [s EXCEPT !.reverseLookupTable = DelSources(@, s.cache[generatedPath].sourceFiles)]

\* The sourceFiles.forEach and delete cache[generatedPath] of removeItem.
DropCached(s, generatedPath) ==
    LET s1 == [s EXCEPT !.reverseLookupTable =
                            DelSources(@, s.cache[generatedPath].sourceFiles)]
    IN  [s1 EXCEPT !.cache = Del(@, generatedPath)]

\* A removeItem that, finding no item under the path, sweeps the reverse
\* entries that still point to it.
RemoveItemSweepsWhenAbsent(s, generatedPath) ==
    LET s1 == IF generatedPath \in DOMAIN s.watchers
                 THEN DropWatcher(s, generatedPath) ELSE s
    IN  IF generatedPath \in DOMAIN s1.cache
           THEN DropCached(s1, generatedPath)
           ELSE [s1 EXCEPT !.reverseLookupTable =
                    [sf \in {x \in DOMAIN @ : @[x] # generatedPath} |-> @[sf]]]

RemoveItem(s, generatedPath) ==
    LET s1 == IF generatedPath \in DOMAIN s.watchers
                 THEN DropWatcher(s, generatedPath) ELSE s
    IN  IF generatedPath \in DOMAIN s1.cache THEN DropCached(s1, generatedPath) ELSE s1

ReverseLookup(s, sourceFileName) ==
    IF sourceFileName \in DOMAIN s.reverseLookupTable
          /\ s.reverseLookupTable[sourceFileName] \in DOMAIN s.cache
       THEN s.cache[s.reverseLookupTable[sourceFileName]]
       ELSE NoItem

\* Object.keys(cache).forEach(key => removeItem(key))
RECURSIVE RemoveAll(_, _)
RemoveAll(s, keys) ==
    IF keys = {} THEN s
    ELSE LET k == CHOOSE x \in keys : TRUE
         IN  RemoveAll(RemoveItem(s, k), keys \ {k})

DisposeStore(s) == RemoveAll(s, DOMAIN s.cache)

\* A lookup that does not consult reverseLookupTable.
LookupResultCacheOnly(s, fileName) ==
    IF fileName \in DOMAIN s.cache THEN s.cache[fileName] ELSE NoItem

\* cache[fileName] || reverseLookup(fileName)
LookupResult(s, fileName) ==
    IF fileName \in DOMAIN s.cache THEN s.cache[fileName]
    ELSE ReverseLookup(s, fileName)

Range(seq) == {seq[i] : i \in 1..Len(seq)}

\* contested once item is registered on store s.
ContestedAfterAdd(c, s, item) ==
    {e \in c : e[1] # item.generatedFile}
    \cup {<<k, sf>> : k \in DOMAIN s.cache \ {item.generatedFile},
                      sf \in Range(item.sourceFiles)}

\* contested once the item of generatedPath is removed from store s.
ContestedAfterRemove(c, s, generatedPath) ==
    IF generatedPath \notin DOMAIN s.cache THEN c
    ELSE {e \in c : e[1] # generatedPath}
         \cup {<<k, sf>> : k \in DOMAIN s.cache \ {generatedPath},
                           sf \in Range(s.cache[generatedPath].sourceFiles)}

\* Only the pairs of what is cached matter.
Contested(c, s) ==
    {e \in c : e[1] \in DOMAIN s.cache /\ e[2] \in Range(s.cache[e[1]].sourceFiles)}

SetStore(s) ==
    /\ cache' = s.cache
    /\ reverseLookupTable' = s.reverseLookupTable
    /\ watchers' = s.watchers
    /\ orphans' = s.orphans

\* Whether one of the last ten lines of a text is a sourceMappingURL line.
HasDirective(text) ==
    \E i \in 1..Len(text) : i > Len(text) - WindowLines /\ text[i].m

Reading(doc, mapUrl) == [doc |-> doc, mapUrl |-> mapUrl]

\* The record of an operation. op: a getForCurrentDocument call up to its
\* return or suspension ("hit", "fetchError", "registered", "miss"), the
\* resumption of a suspended one ("resumed", "readFailed"), a registration
\* whose addItem threw ("addFailed"), "event", "dispose". doc: the active
\* document, or the watched path. item: the item returned or registered.
\* directive: whether the document's last ten lines held a directive.
\* afterEvent: whether the document had been evicted by a watcher event
\* since its last lookup. dup: whether the operation repeats the one just
\* before it: for "resumed", it follows at once the registration of an
\* overlapping navigation for the same document; for a call, it follows at
\* once a registration for the same document; for "dispose", it follows at
\* once a dispose. base: the store before the operation (for "resumed" with
\* dup, before the first of the two registrations).
Op(op, doc, item, directive, afterEvent, dup, base) ==
    [op |-> op, doc |-> doc, item |-> item, directive |-> directive,
     afterEvent |-> afterEvent, dup |-> dup, base |-> base]

\* Whether a call for doc follows at once a registration for doc.
Again(doc) == last.op \in {"registered", "resumed"} /\ last.doc = doc

\* No document is being scanned apart from a navigation.
NoScan == [text |-> <<>>, done |-> FALSE, url |-> NoUrl]

\* No editor is shown.
NoEditor == [kind |-> "none", file |-> <<>>]

\* The navigate command that is followed, before it starts. pc: where it is
\* ("idle", "reading" in readFile, "opening" the destination by path,
\* "untitled" opening the untitled buffer, "showing" the document, "editing"
\* the buffer, "done"). doc: the document active at the call. active: the
\* document active when the direction is chosen. direction: "original" or
\* "generated". decoded: the choice of the decoder (0, no mapping; d, a
\* mapping, into the d-th source for "original"). dest: the translated
\* position. openFailed: opening dest by
\* path has failed. editor: the editor shown. buffer: the text of the
\* untitled buffer. selected, selectedOver: a selection has been applied, and
\* the buffer text it was applied over. warnings: warning messages shown.
\* error: the message of the error caught. escaped: an error left navigate.
NavIdle ==
    [pc |-> "idle", doc |-> <<>>, item |-> NoItem, active |-> <<>>, direction |-> "none",
     decoded |-> 0, dest |-> NoPosition, openFailed |-> FALSE, editor |-> NoEditor,
     buffer |-> NoContents, selected |-> FALSE, selectedOver |-> NoContents,
     warnings |-> 0, error |-> "", escaped |-> FALSE]

Init ==
    /\ scan = NoScan
    /\ nav = NavIdle
    /\ cache = Empty
    /\ reverseLookupTable = Empty
    /\ watchers = Empty
    /\ orphans = Empty
    /\ inflight = Empty
    /\ last = Op("init", <<>>, NoItem, FALSE, FALSE, FALSE, NoStore)
    /\ sinceEvent = {}
    /\ contested = {}

\* getForCurrentDocument, a hit: the item comes from the tables.
GetHit(doc, text) ==
    /\ LookupResult(Store, doc) # NoItem
    /\ last' = Op("hit", doc, LookupResult(Store, doc), HasDirective(text),
                  doc \in sinceEvent, Again(doc), Store)
    /\ sinceEvent' = sinceEvent \ {doc}
    /\ UNCHANGED <<cache, reverseLookupTable, watchers, orphans, inflight, contested>>

\* getForCurrentDocument, a miss whose fetch throws before any suspension
\* that lets another task run: no directive in the window, or a data URI
\* that does not decode to a map.
GetMissFetchError(doc, text) ==
    /\ LookupResult(Store, doc) = NoItem
    /\ \/ FetchedMapUrl(text).none
       \/ /\ IsDataUri(FetchedMapUrl(text))
          /\ ~FetchedMapUrl(text).payload.ok
    /\ last' = Op("fetchError", doc, NoItem, HasDirective(text),
                  doc \in sinceEvent, Again(doc), Store)
    /\ sinceEvent' = sinceEvent \ {doc}
    /\ UNCHANGED <<cache, reverseLookupTable, watchers, orphans, inflight, contested>>

\* getForCurrentDocument, a miss on a document with an inline map: the item
\* is built from the document's text and registered with no task in between
\* (the promise of fromDataUrl is already resolved when it is awaited).
GetMissDataUrl(doc, text, createThrows) ==
    /\ LookupResult(Store, doc) = NoItem
    /\ ~FetchedMapUrl(text).none
    /\ IsDataUri(FetchedMapUrl(text))
    /\ FetchedMapUrl(text).payload.ok
    /\ LET f == FetcherFetch(doc, text)
           item == NewSourceMapItem(f.dataUrl.payload, f.fileUrl)
           after == SafeAddItem(Store, item, createThrows)
       IN  /\ BagSize(LiveWatchers(after)) <= MaxWatchers
           /\ SetStore(after)
           /\ last' = Op(IF createThrows THEN "addFailed" ELSE "registered", doc, item,
                         HasDirective(text), doc \in sinceEvent, Again(doc), Store)
           /\ contested' = Contested(ContestedAfterAdd(contested, Store, item), after)
    /\ sinceEvent' = sinceEvent \ {doc}
    /\ UNCHANGED inflight

\* getForCurrentDocument, a miss on a document with a map file: suspended in
\* readFile.
GetMissFile(doc, text) ==
    /\ LookupResult(Store, doc) = NoItem
    /\ ~FetchedMapUrl(text).none
    /\ ~IsDataUri(FetchedMapUrl(text))
    /\ BagSize(inflight) < MaxInflight
    /\ inflight' = BagAdd(inflight, Reading(doc, FetcherFetch(doc, text).mapUrl))
    /\ last' = Op("miss", doc, NoItem, HasDirective(text), doc \in sinceEvent, Again(doc),
                  Store)
    /\ sinceEvent' = sinceEvent \ {doc}
    /\ UNCHANGED <<cache, reverseLookupTable, watchers, orphans, contested>>

\* readFile has answered with a map: fromString, then addItem.
ReadDone(r, content, createThrows) ==
    /\ r \in DOMAIN inflight
    /\ content.ok
    /\ LET item == NewSourceMapItem(content, r.mapUrl)
           after == SafeAddItem(Store, item, createThrows)
           overlapped == last.op \in {"registered", "resumed"} /\ last.doc = r.doc
                         /\ ~createThrows
       IN  /\ BagSize(LiveWatchers(after)) <= MaxWatchers
           /\ SetStore(after)
           /\ last' = Op(IF createThrows THEN "addFailed" ELSE "resumed", r.doc, item,
                         TRUE, FALSE, overlapped,
                         IF overlapped THEN last.base ELSE Store)
           /\ contested' = Contested(ContestedAfterAdd(contested, Store, item), after)
    /\ inflight' = BagRemove(inflight, r)
    /\ UNCHANGED sinceEvent

\* readFile or fromString has failed: fetch throws, nothing is registered.
ReadFailed(r, content) ==
    /\ r \in DOMAIN inflight
    /\ ~content.ok
    /\ last' = Op("readFailed", r.doc, NoItem, TRUE, FALSE, FALSE, Store)
    /\ inflight' = BagRemove(inflight, r)
    /\ UNCHANGED <<cache, reverseLookupTable, watchers, orphans, sinceEvent, contested>>

\* A watcher on path k that is not disposed, stored or not, reports a change
\* or a deletion of its file: its callback removes the item of that path.
WatcherEvent(k) ==
    /\ k \in DOMAIN LiveWatchers(Store)
    /\ SetStore(RemoveItem(Store, k))
    /\ last' = Op("event", k, NoItem, FALSE, FALSE, FALSE, Store)
    /\ contested' = Contested(ContestedAfterRemove(contested, Store, k),
                              RemoveItem(Store, k))
    /\ sinceEvent' = IF k \in DOMAIN cache /\ k \in Docs
                        THEN sinceEvent \cup {k} ELSE sinceEvent
    /\ UNCHANGED inflight

Dispose ==
    /\ SetStore(DisposeStore(Store))
    /\ last' = Op("dispose", <<>>, NoItem, FALSE, FALSE, last.op = "dispose", Store)
    /\ contested' = Contested(contested, DisposeStore(Store))
    /\ UNCHANGED <<inflight, sinceEvent>>

Keys == {GenA, GenB, MapB}

\* A step of the store alone: no navigation is followed, nothing is scanned.
StoreOnly == UNCHANGED <<scan, nav>>

Next ==
    \/ \E doc \in Docs : \E text \in Texts(doc) : GetHit(doc, text) /\ StoreOnly
    \/ \E doc \in Docs : \E text \in Texts(doc) : GetMissFetchError(doc, text) /\ StoreOnly
    \/ \E doc \in Docs : \E text \in Texts(doc) :
          GetMissDataUrl(doc, text, FALSE) /\ StoreOnly
    \/ \E doc \in Docs : \E text \in Texts(doc) : GetMissFile(doc, text) /\ StoreOnly
    \/ \E r \in DOMAIN inflight : \E content \in FileContents(r.mapUrl) :
          ReadDone(r, content, FALSE) /\ StoreOnly
    \/ \E r \in DOMAIN inflight : \E content \in FileContents(r.mapUrl) :
          ReadFailed(r, content) /\ StoreOnly
    \/ \E k \in Keys : WatcherEvent(k) /\ StoreOnly
    \/ Dispose /\ StoreOnly

Spec == Init /\ [][Next]_vars

\* The same, in an environment where createFileSystemWatcher can throw.
NextFail ==
    \/ Next
    \/ \E doc \in Docs : \E text \in Texts(doc) :
          GetMissDataUrl(doc, text, TRUE) /\ StoreOnly
    \/ \E r \in DOMAIN inflight :
          \E content \in FileContents(r.mapUrl) : ReadDone(r, content, TRUE) /\ StoreOnly

SpecFail == Init /\ [][NextFail]_vars

\* ------------------------------------------- SourceMapFetcher.fetch alone
\* The URLs a directive can carry.
ScanUrls == {PathUrl(Rel(<<"b.js.map">>)), PathUrl(Rel(<<"old.map">>))}

\* A document of n lines with a directive for u1 at line i and one for u2 at
\* line j (none where the index is 0).
ScanText(n, i, u1, j, u2) ==
    [k \in 1..n |-> IF k = j THEN Directive(u2)
                    ELSE IF k = i THEN Directive(u1) ELSE Code]

\* The documents handed to the fetcher: up to MaxLines lines, up to two
\* directives anywhere.
ScanTexts ==
    {ScanText(n, i, u1, j, u2) : n \in 0..MaxLines, i \in 0..MaxLines, j \in 0..MaxLines,
                                 u1 \in ScanUrls, u2 \in ScanUrls}

InitFetch ==
    /\ scan \in {[NoScan EXCEPT !.text = text] : text \in ScanTexts}
    /\ nav = NavIdle
    /\ cache = Empty
    /\ reverseLookupTable = Empty
    /\ watchers = Empty
    /\ orphans = Empty
    /\ inflight = Empty
    /\ last = Op("init", <<>>, NoItem, FALSE, FALSE, FALSE, NoStore)
    /\ sinceEvent = {}
    /\ contested = {}

\* SourceMapFetcher.fetch up to the URL it has extracted; a URL that is none
\* stands for the error it throws when no line of the window matches.
ScanFetch ==
    /\ ~scan.done
    /\ scan' = [scan EXCEPT !.done = TRUE, !.url = FetchedMapUrl(scan.text)]
    /\ UNCHANGED <<cache, reverseLookupTable, watchers, orphans, inflight, last,
                   sinceEvent, contested, nav>>

NextFetch == ScanFetch

SpecFetch == InitFetch /\ [][NextFetch]_vars

\* ---------------------------------------------------------------- navigate
\* One navigate command at a time is followed from its call to its end,
\* while watcher events and dispose run in between its suspensions.

\* The choices of the decoder for a position: 0, no mapping; d > 0, a mapping
\* (into the d-th declared source, for originalPositionFor).
Decodings == 0..2

\* The texts an untitled buffer can hold when it is opened.
OldBuffers == {NoContents, "text of an earlier visit"}

\* A catch of navigate that lets the error go on to the caller.
NavCatchRethrows(n, message) ==
    [n EXCEPT !.pc = "done", !.error = message, !.escaped = TRUE]

\* The catch of navigate: one warning message, and the command is over.
NavCatch(n, message) ==
    [n EXCEPT !.pc = "done", !.error = message, !.warnings = @ + 1]

\* navigate from the item it got to its suspension in openTextDocument: the
\* direction is chosen for the document that is active then, and the
\* position is translated.
Translate(n, item, active, d) ==
    LET n1 == [n EXCEPT !.item = item, !.active = active, !.decoded = d] IN
    IF IsCurrentDocumentGenerated(item, active)
       THEN IF d = 0
               THEN NavCatch([n1 EXCEPT !.direction = "original"],
                             "Failed to get original position for generated file")
               ELSE [n1 EXCEPT !.direction = "original", !.pc = "opening",
                               !.dest = OriginalPositionFor(item, d)]
       ELSE IF d = 0
               THEN NavCatch([n1 EXCEPT !.direction = "generated"],
                             "Failed to get generated position for original file")
               ELSE [n1 EXCEPT !.direction = "generated", !.pc = "opening",
                               !.dest = GeneratedPositionFor(item)]

\* The decodings that exist for an item and a direction.
CanDecode(item, active, d) ==
    IF IsCurrentDocumentGenerated(item, active)
       THEN d <= Len(item.rawSourceMap.sources)
       ELSE d <= 1

NavStart(doc) == [NavIdle EXCEPT !.doc = doc]

CanStart == nav.pc \in {"idle", "done"}

\* navigate, the lookup is a hit.
NavHit(doc, text, d) ==
    /\ CanStart
    /\ GetHit(doc, text)
    /\ CanDecode(LookupResult(Store, doc), doc, d)
    /\ nav' = Translate(NavStart(doc), LookupResult(Store, doc), doc, d)
    /\ UNCHANGED scan

\* navigate, the lookup misses and the fetch throws.
NavFetchError(doc, text) ==
    /\ CanStart
    /\ GetMissFetchError(doc, text)
    /\ nav' = NavCatch(NavStart(doc), "Can't retrieve source maps for current document")
    /\ UNCHANGED scan

\* navigate, the lookup misses on a document with an inline map.
NavMissDataUrl(doc, text, d) ==
    /\ CanStart
    /\ GetMissDataUrl(doc, text, FALSE)
    /\ LET f == FetcherFetch(doc, text)
           item == NewSourceMapItem(f.dataUrl.payload, f.fileUrl)
       IN  /\ CanDecode(item, doc, d)
           /\ nav' = Translate(NavStart(doc), item, doc, d)
    /\ UNCHANGED scan

\* navigate, the lookup misses on a document with a map file: suspended.
NavMissFile(doc, text) ==
    /\ CanStart
    /\ GetMissFile(doc, text)
    /\ nav' = [NavStart(doc) EXCEPT !.pc = "reading"]
    /\ UNCHANGED scan

\* navigate resumes with the item read; another document can be active.
NavReadDone(r, content, active, d) ==
    /\ nav.pc = "reading"
    /\ r.doc = nav.doc
    /\ ReadDone(r, content, FALSE)
    /\ CanDecode(NewSourceMapItem(content, r.mapUrl), active, d)
    /\ nav' = Translate(nav, NewSourceMapItem(content, r.mapUrl), active, d)
    /\ UNCHANGED scan

\* navigate resumes with the error of the read.
NavReadFailed(r, content) ==
    /\ nav.pc = "reading"
    /\ r.doc = nav.doc
    /\ ReadFailed(r, content)
    /\ nav' = NavCatch(nav, "Can't retrieve source maps for current document")
    /\ UNCHANGED scan

StoreUnchanged ==
    UNCHANGED <<cache, reverseLookupTable, watchers, orphans, inflight, last, sinceEvent,
                contested, scan>>

\* A navigateToDestination that gives up when the path cannot be opened,
\* with or without inline contents.
OpenByPathAlwaysThrows(n, exists) ==
    IF exists THEN [n EXCEPT !.pc = "showing"]
    ELSE NavCatch([n EXCEPT !.openFailed = TRUE],
            "Original source doesn't exist and source map doesn't provide inline source")

\* navigateToDestination, openTextDocument(destination.file) has answered.
OpenByPath(n, exists) ==
    IF exists THEN [n EXCEPT !.pc = "showing"]
    ELSE IF n.dest.contents = NoContents
            THEN NavCatch([n EXCEPT !.openFailed = TRUE],
                    "Original source doesn't exist and source map doesn't provide inline source")
            ELSE [n EXCEPT !.openFailed = TRUE, !.pc = "untitled"]

NavOpen(exists) ==
    /\ nav.pc = "opening"
    /\ nav' = OpenByPath(nav, exists)
    /\ StoreUnchanged

\* openTextDocument(untitledFile) has answered with the buffer of that path.
NavOpenUntitled(old) ==
    /\ nav.pc = "untitled"
    /\ nav' = [nav EXCEPT !.pc = "showing", !.buffer = old]
    /\ StoreUnchanged

\* editor.selection = new Selection(destination, destination)
Select(n) == [n EXCEPT !.pc = "done", !.selected = TRUE, !.selectedOver = n.buffer]

\* showTextDocument has answered: an untitled document is edited first.
ShowTextDocument(n) ==
    IF n.openFailed
       THEN [n EXCEPT !.pc = "editing", !.editor = [kind |-> "untitled", file |-> n.dest.file]]
       ELSE Select([n EXCEPT !.editor = [kind |-> "file", file |-> n.dest.file]])

NavShow ==
    /\ nav.pc = "showing"
    /\ nav' = ShowTextDocument(nav)
    /\ StoreUnchanged

\* editor.edit has replaced the whole document by destination.contents.
EditWholeDoc(n) == Select([n EXCEPT !.buffer = n.dest.contents])

NavEdit ==
    /\ nav.pc = "editing"
    /\ nav' = EditWholeDoc(nav)
    /\ StoreUnchanged

NextNav ==
    \/ \E doc \in Docs : \E text \in Texts(doc) : \E d \in Decodings : NavHit(doc, text, d)
    \/ \E doc \in Docs : \E text \in Texts(doc) : NavFetchError(doc, text)
    \/ \E doc \in Docs : \E text \in Texts(doc) : \E d \in Decodings :
          NavMissDataUrl(doc, text, d)
    \/ \E doc \in Docs : \E text \in Texts(doc) : NavMissFile(doc, text)
    \/ \E r \in DOMAIN inflight : \E content \in FileContents(r.mapUrl) :
          \E active \in Docs : \E d \in Decodings : NavReadDone(r, content, active, d)
    \/ \E r \in DOMAIN inflight : \E content \in FileContents(r.mapUrl) :
          NavReadFailed(r, content)
    \/ \E exists \in BOOLEAN : NavOpen(exists)
    \/ \E old \in OldBuffers : NavOpenUntitled(old)
    \/ NavShow
    \/ NavEdit
    \/ \E k \in Keys : WatcherEvent(k) /\ StoreOnly
    \/ Dispose /\ StoreOnly

SpecNav == Init /\ [][NextNav]_vars

\* ------------------------------------------------------------------ claims
Calls == {"hit", "miss", "registered", "fetchError"}

Lists(item, sf) == sf \in Range(item.sourceFiles)

\* C1 (as stated): in every reachable state, every source file of every
\* cached item has a reverseLookupTable entry whose value is the key of that
\* item, also when two cached maps declare the same source path.
C1_EverySourcePointsBack ==
    \A k \in DOMAIN cache : \A sf \in Range(cache[k].sourceFiles) :
        sf \in DOMAIN reverseLookupTable /\ reverseLookupTable[sf] = k

\* C1 (amended): in every reachable state, every source file of every cached
\* item has a reverseLookupTable entry whose value is the key of that item,
\* unless an item of another key that lists the same source file has been
\* registered or removed since the item was registered.
C1_UncontestedSourcePointsBack ==
    \A k \in DOMAIN cache : \A sf \in Range(cache[k].sourceFiles) :
        <<k, sf>> \notin contested =>
            sf \in DOMAIN reverseLookupTable /\ reverseLookupTable[sf] = k

\* Two cached maps list /src/x.ts: the entry of /src/x.ts points to the one
\* registered last, and the other source of the first points to the first.
C1_Witness ==
    /\ DOMAIN cache = {GenA, GenB}
    /\ Lists(cache[GenA], SrcX) /\ Lists(cache[GenA], SrcY) /\ Lists(cache[GenB], SrcX)
    /\ contested = {<<GenA, SrcX>>}
    /\ reverseLookupTable = (SrcX :> GenB @@ SrcY :> GenA)

\* C2: in every reachable state, every key of cache is a key of watchers and
\* the watcher stored there is not disposed.
C2_CachedKeysAreWatched ==
    \A k \in DOMAIN cache : k \in DOMAIN watchers /\ watchers[k] = "active"

\* Two maps are cached after a watcher event has removed one before.
C2_Witness ==
    /\ Cardinality(DOMAIN cache) = 2
    /\ last.op = "registered"
    /\ last.afterEvent

\* C3: once the map of generated file G is cached and a change or delete
\* event on G has been delivered, the next getForCurrentDocument for G is
\* not answered from the cache, in every interleaving.
C3_LookupAfterEventMisses ==
    ~(last.op = "hit" /\ last.afterEvent)

\* C4: after removeItem(G) has run, for a watcher event or in dispose, G is
\* no key of cache, no key of watchers and no value of reverseLookupTable.
C4_RemovedKeyIsGone ==
    LET removed == IF last.op = "event" THEN {last.doc}
                   ELSE IF last.op = "dispose" THEN DOMAIN last.base.cache
                   ELSE {}
    IN  \A g \in removed :
          /\ g \notin DOMAIN cache
          /\ g \notin DOMAIN watchers
          /\ \A sf \in DOMAIN reverseLookupTable : reverseLookupTable[sf] # g

\* C5: after dispose() no watcher the store created is left undisposed.
C5_DisposeLeavesNoWatcher ==
    last.op = "dispose" => LiveWatchers(Store) = Empty

\* C6: after dispose() cache, reverseLookupTable and watchers are empty.
C6_DisposeEmptiesTables ==
    last.op = "dispose" =>
        cache = Empty /\ reverseLookupTable = Empty /\ watchers = Empty

\* C7: when createFileSystemWatcher throws inside addItem, the call leaves
\* cache, reverseLookupTable and watchers as they were before it.
C7_FailedAddIsNoOp ==
    last.op = "addFailed" =>
        /\ cache = last.base.cache
        /\ reverseLookupTable = last.base.reverseLookupTable
        /\ watchers = last.base.watchers

\* C8: when two getForCurrentDocument calls for the same uncached document
\* overlap and both register, the tables and the undisposed watchers end up
\* as if the item written last had been registered alone.
C8_OverlapAsIfSingle ==
    (last.op = "resumed" /\ last.dup) =>
        LET single == AddItem(last.base, last.item)
        IN  /\ cache = single.cache
            /\ reverseLookupTable = single.reverseLookupTable
            /\ watchers = single.watchers
            /\ LiveWatchers(Store) = LiveWatchers(single)

\* C9 (as stated): a getForCurrentDocument call for a document with no
\* directive in its last ten lines fails with an error and leaves the
\* tables unchanged.
C9_NoDirectiveFails ==
    (last.op \in Calls /\ ~last.directive) =>
        /\ last.op = "fetchError"
        /\ Store = last.base

\* C9 (amended): a getForCurrentDocument call for a document with no
\* directive in its last ten lines that is not answered from cache or
\* reverseLookupTable fails with an error; whether it fails or is answered
\* from the tables, it leaves the tables unchanged and suspends no read.
C9_NoDirectiveFailsOnMiss ==
    (last.op \in Calls /\ ~last.directive) =>
        /\ LookupResult(last.base, last.doc) = NoItem => last.op = "fetchError"
        /\ last.op \in {"fetchError", "hit"}
        /\ Store = last.base

\* A document whose only directive is above its last ten lines has failed
\* while a map was cached.
C9_Witness ==
    /\ last.op = "fetchError"
    /\ last.doc = Plain
    /\ ~last.directive
    /\ cache # Empty

\* C10: when the active document is a key of cache, or has a
\* reverseLookupTable entry whose target is a key of cache, the call is a
\* hit (it neither registers an item nor suspends in a read), returns that
\* item and leaves the tables unchanged.
C10_HitReturnsCachedItem ==
    LET b == last.base
        d == last.doc
        byKey == d \in DOMAIN b.cache
        bySource == d \in DOMAIN b.reverseLookupTable
                    /\ b.reverseLookupTable[d] \in DOMAIN b.cache
    IN  (last.op \in Calls /\ (byKey \/ bySource))
        => /\ last.op = "hit"
           /\ last.item = IF byKey THEN b.cache[d] ELSE b.cache[b.reverseLookupTable[d]]
           /\ Store = b

\* A source document has been answered through reverseLookupTable.
C10_Witness ==
    /\ last.op = "hit"
    /\ last.doc = SrcX
    /\ last.item.generatedFile \in {GenA, GenB}

\* C11: removeItem(G) for a G that is neither a key of cache nor a key of
\* watchers changes none of the tables, and a dispose() that follows a
\* dispose() changes nothing.
C11_RemoveAbsentIsNoOp ==
    /\ (last.op = "event" /\ last.doc \notin DOMAIN last.base.cache
                          /\ last.doc \notin DOMAIN last.base.watchers)
          => Store = last.base
    /\ (last.op = "dispose" /\ last.dup) => Store = last.base

\* A watcher that addItem had overwritten has reported an event for a path
\* that had no item and no stored watcher, while a reverse entry still
\* pointed to that path.
C11_Witness ==
    /\ last.op = "event"
    /\ last.doc \notin DOMAIN last.base.cache
    /\ last.doc \notin DOMAIN last.base.watchers
    /\ \E sf \in DOMAIN reverseLookupTable : reverseLookupTable[sf] = last.doc

\* C15: a constructed item has generatedFile = resolve(dirname(mapFile),
\* map.file) when the map declares a file, and mapFile itself otherwise, where
\* mapFile is the document's own path for a data-URI map and the resolved map
\* file path for a file-based map.
C15_GeneratedFileRule ==
    last.op \in {"registered", "resumed"} =>
        LET mapFile == IF last.op = "registered" THEN last.doc ELSE MapB
            file    == last.item.rawSourceMap.file
        IN  /\ last.item.sourceMapFile = mapFile
            /\ last.item.generatedFile =
                   IF file = EmptyStr THEN mapFile
                   ELSE PathResolve(PathDirname(mapFile), file)

\* A file-based map that declares a file has been registered, and the
\* generated file is not the map file.
C15_Witness ==
    /\ last.op = "resumed"
    /\ last.item.rawSourceMap.file # EmptyStr
    /\ last.item.generatedFile = GenB
    /\ last.item.sourceMapFile = MapB

\* C18: after getForCurrentDocument has succeeded for a generated document D
\* through a miss, a call for D that follows with no watcher event in between
\* is a hit, with no second fetch and no second watcher, whether the map
\* declares a file or not and whether it is inline or file-based.
C18_SecondCallHits ==
    (last.op \in Calls /\ last.dup) =>
        /\ last.op = "hit"
        /\ LiveWatchers(Store) = LiveWatchers(last.base)

\* C19: in every reachable state, each watcher that is not disposed is the
\* one stored in watchers under its path: no watcher has been overwritten
\* without being disposed.
C19_NoOrphanWatcher == orphans = Empty

\* C20: whenever getForCurrentDocument returns an item from the tables for a
\* document D, D is the generatedFile of that item or one of its sourceFiles.
C20_HitListsDocument ==
    last.op = "hit" => (last.doc = last.item.generatedFile \/ Lists(last.item, last.doc))

\* C14: SourceMapFetcher.fetch considers only the last ten lines of the
\* document and returns the URL of the matching line closest to the end: a
\* match outside the window is never returned, and an earlier match inside
\* the window never wins over a later one.
C14_LastMatchInWindow ==
    scan.done =>
        LET n == Len(scan.text)
            matching == {i \in 1..n : i > n - WindowLines /\ scan.text[i].m}
        IN  IF matching = {} THEN scan.url.none
            ELSE \E i \in matching :
                    /\ \A j \in matching : j <= i
                    /\ scan.url = scan.text[i].url

\* A scanned document longer than the window, with two directives for
\* different URLs inside the window.
C14_Witness ==
    /\ scan.done
    /\ Len(scan.text) > WindowLines
    /\ \E i, j \in 1..Len(scan.text) :
          /\ Len(scan.text) - WindowLines < i /\ i < j
          /\ scan.text[i].m /\ scan.text[j].m
          /\ scan.text[i].url # scan.text[j].url
          /\ scan.url = scan.text[j].url

OpenError == "Original source doesn't exist and source map doesn't provide inline source"

\* C12: every failure at a step of navigate (the lookup or fetch, the
\* translation, the opening of the destination) is caught inside navigate: no
\* error leaves it, exactly one warning message is shown, and no selection is
\* applied to any editor.
C12_FailureIsCaught ==
    /\ nav.error # "" =>
          /\ nav.pc = "done"
          /\ ~nav.escaped
          /\ nav.warnings = 1
          /\ ~nav.selected
    /\ nav.error = "" => (nav.warnings = 0 /\ ~nav.escaped)

\* A navigation has failed in opening the destination, after a translation
\* that succeeded.
C12_Witness ==
    /\ nav.pc = "done"
    /\ nav.error = OpenError
    /\ nav.direction = "original"
    /\ nav.warnings = 1

\* C13: navigate translates with originalPositionFor exactly when the path
\* of the active document equals the generatedFile of the item it got, and
\* with generatedPositionFor in every other case.
C13_DirectionRule ==
    nav.direction # "none" =>
        /\ nav.direction \in {"original", "generated"}
        /\ nav.direction = "original" <=> nav.active = nav.item.generatedFile

\* A navigation started on /dist/b.js has resumed from the read of a map
\* without file field, so that the item's generatedFile is the map file: the
\* active document is neither the generatedFile nor a source of the item, and
\* the position is translated with generatedPositionFor.
C13_Witness ==
    /\ nav.direction = "generated"
    /\ nav.active = GenB
    /\ nav.item.generatedFile = MapB
    /\ ~Lists(nav.item, nav.active)

\* C16: when opening the destination by path fails, a destination with
\* inline contents is shown in an untitled buffer for its path whose whole
\* text is replaced by exactly those contents before the selection is
\* applied, and the navigation does not fail; a destination without contents
\* makes the navigation fail with the destination error, with no editor shown.
C16_OpenFailure ==
    nav.openFailed =>
        IF nav.dest.contents # NoContents
           THEN /\ nav.error = ""
                /\ nav.pc = "done" => nav.selected
                /\ nav.selected =>
                      /\ nav.editor = [kind |-> "untitled", file |-> nav.dest.file]
                      /\ nav.selectedOver = nav.dest.contents
                      /\ nav.buffer = nav.dest.contents
           ELSE /\ nav.pc = "done"
                /\ nav.error = OpenError
                /\ nav.editor = NoEditor
                /\ ~nav.selected

\* A navigation whose destination could not be opened by path has ended
\* with the selection applied in the untitled buffer.
C16_Witness ==
    /\ nav.pc = "done"
    /\ nav.openFailed
    /\ nav.dest.contents = "text of y.ts"
    /\ nav.dest.file = SrcY
    /\ nav.selected

\* C17: originalPositionFor attaches contents exactly when the raw map carries
\* sourcesContent for the declared source the position decodes into, and the
\* text attached is the element for that source, with or without a sourceRoot
\* in the map.
C17_ContentsOfDecodedSource ==
    (nav.direction = "original" /\ nav.decoded > 0) =>
        nav.dest.contents = SourcesContentAt(nav.item.rawSourceMap, nav.decoded)

====
